---- MODULE Spec2Model ----
(***************************************************************************)
(* The Gruyere Template Language expander (gtl.py).                        *)
(*                                                                         *)
(* Python strings are sequences of one-character strings, indexed from 0   *)
(* by the operators below as in the source.  Python values are tagged      *)
(* records.  An operation that can raise returns a record whose err field  *)
(* names the exception ("" when it returns normally); an operation with    *)
(* side effects also returns ev, the sequence of its effects in program    *)
(* order (calls of ExpandTemplate and their returns, log messages, file    *)
(* opens and closes).                                                      *)
(***************************************************************************)
EXTENDS Integers, Sequences, FiniteSets, TLC

\* Deepest chain of nested ExpandTemplate calls the interpreter stack holds
\* before Python raises RecursionError.
MaxDepth == 5

------------------------------------------------------------------------------
\* Python str operations

Min(S) == CHOOSE x \in S : \A y \in S : x <= y

\* s[i:j] for 0 <= i, with j clamped to len(s)
Slice(s, i, j) == SubSeq(s, i + 1, IF j > Len(s) THEN Len(s) ELSE j)

\* s.find(sub, start)
Find(s, sub, start) ==
    LET From(st) ==
            IF \E i \in st..(Len(s) - Len(sub)) : SubSeq(s, i + 1, i + Len(sub)) = sub
            THEN Min({i \in st..(Len(s) - Len(sub)) :
                        SubSeq(s, i + 1, i + Len(sub)) = sub})
            ELSE -1
    IN From(IF start >= 0 THEN start
            ELSE IF Len(s) + start < 0 THEN 0 ELSE Len(s) + start)

\* s.startswith(prefix)
StartsWith(s, prefix) ==
    Len(s) >= Len(prefix) /\ SubSeq(s, 1, Len(prefix)) = prefix

\* s.split(sep, 1)
Split1(s, sep) ==
    LET At(i) == IF i < 0 THEN <<s>>
                 ELSE <<Slice(s, 0, i), Slice(s, i + Len(sep), Len(s))>>
    IN At(Find(s, sep, 0))

\* s.split(sep)
RECURSIVE SplitAll(_, _)
SplitAll(s, sep) ==
    LET At(i) == IF i < 0 THEN <<s>>
                 ELSE <<Slice(s, 0, i)>> \o SplitAll(Slice(s, i + Len(sep), Len(s)), sep)
    IN At(Find(s, sep, 0))

\* s.replace(old, new) for a one-character old
Replace(s, old, new) ==
    [i \in 1..Len(s) |-> IF s[i] = old THEN new ELSE s[i]]

\* ''.join(parts[lo..hi]), by halves
RECURSIVE JoinRange(_, _, _)
JoinRange(parts, lo, hi) ==
    IF lo > hi THEN <<>>
    ELSE IF lo = hi THEN parts[lo]
    ELSE LET mid == (lo + hi) \div 2
         IN JoinRange(parts, lo, mid) \o JoinRange(parts, mid + 1, hi)

\* ''.join(parts)
Join(parts) == JoinRange(parts, 1, Len(parts))

Digits == <<"0", "1", "2", "3", "4", "5", "6", "7", "8", "9">>

DigitSet == {Digits[i] : i \in 1..Len(Digits)}

\* s.isdigit()
IsDigit(s) == Len(s) > 0 /\ \A i \in 1..Len(s) : s[i] \in DigitSet

\* int(s) for a string of digits
RECURSIVE ToInt(_)
ToInt(s) ==
    IF s = <<>> THEN 0
    ELSE ToInt(SubSeq(s, 1, Len(s) - 1)) * 10
         + (CHOOSE k \in 0..9 : Digits[k + 1] = s[Len(s)])

\* str(i) for an integer
RECURSIVE IntToStr(_)
IntToStr(n) ==
    IF n < 0 THEN <<"-">> \o IntToStr(0 - n)
    ELSE IF n < 10 THEN <<Digits[n + 1]>>
    ELSE IntToStr(n \div 10) \o <<Digits[(n % 10) + 1]>>

------------------------------------------------------------------------------
\* Python values

NoneV == [t |-> "none"]
BoolV(b) == [t |-> "bool", b |-> b]
IntV(n) == [t |-> "int", n |-> n]
StrV(s) == [t |-> "str", s |-> s]
ListV(items) == [t |-> "list", items |-> items]
\* a dict: its <<key, value>> pairs in insertion order, keys unique
DictV(pairs) == [t |-> "dict", pairs |-> pairs]

\* isinstance(x, collections.Mapping)
IsMapping(x) == x.t = "dict"

\* isinstance(x, collections.Sequence): a list, and also a str
IsSequence(x) == x.t \in {"list", "str"}

\* key in mapping
HasKey(m, key) == \E i \in 1..Len(m.pairs) : m.pairs[i][1] = key

\* mapping[key]
Lookup(m, key) ==
    m.pairs[CHOOSE i \in 1..Len(m.pairs) : m.pairs[i][1] = key][2]

\* len(sequence)
SeqLen(x) == IF x.t = "str" THEN Len(x.s) ELSE Len(x.items)

\* sequence[i]
SeqAt(x, i) == IF x.t = "str" THEN StrV(<<x.s[i + 1]>>) ELSE x.items[i + 1]

\* bool(x)
Truthy(x) ==
    CASE x.t = "none" -> FALSE
      [] x.t = "bool" -> x.b
      [] x.t = "int" -> x.n # 0
      [] x.t = "str" -> x.s # <<>>
      [] x.t = "list" -> x.items # <<>>
      [] x.t = "dict" -> x.pairs # <<>>

\* repr(s) for a str, in the quotes Python picks
ReprStr(s) ==
    LET Quoted(q) ==
            LET esc(c) == IF c = "\\" THEN <<"\\", "\\">>
                          ELSE IF c = q THEN <<"\\", c>>
                          ELSE <<c>>
            IN <<q>> \o Join([i \in 1..Len(s) |-> esc(s[i])]) \o <<q>>
    IN Quoted(IF (\E i \in 1..Len(s) : s[i] = "'")
                 /\ ~(\E i \in 1..Len(s) : s[i] = "\"")
              THEN "\"" ELSE "'")

RECURSIVE Repr(_)
\* repr(x)
Repr(x) ==
    CASE x.t = "none" -> <<"N", "o", "n", "e">>
      [] x.t = "bool" -> IF x.b THEN <<"T", "r", "u", "e">>
                         ELSE <<"F", "a", "l", "s", "e">>
      [] x.t = "int" -> IntToStr(x.n)
      [] x.t = "str" -> ReprStr(x.s)
      [] x.t = "list" ->
            <<"[">>
            \o Join([i \in 1..Len(x.items) |->
                       (IF i > 1 THEN <<",", " ">> ELSE <<>>) \o Repr(x.items[i])])
            \o <<"]">>
      [] x.t = "dict" ->
            <<"{">>
            \o Join([i \in 1..Len(x.pairs) |->
                       (IF i > 1 THEN <<",", " ">> ELSE <<>>)
                       \o ReprStr(x.pairs[i][1]) \o <<":", " ">> \o Repr(x.pairs[i][2])])
            \o <<"}">>

\* str(x)
Str(x) == IF x.t = "str" THEN x.s ELSE Repr(x)

\* html.escape(s)
HtmlEscape(s) ==
    LET esc(c) ==
            CASE c = "&" -> <<"&", "a", "m", "p", ";">>
              [] c = "<" -> <<"&", "l", "t", ";">>
              [] c = ">" -> <<"&", "g", "t", ";">>
              [] c = "\"" -> <<"&", "q", "u", "o", "t", ";">>
              [] c = "'" -> <<"&", "#", "x", "2", "7", ";">>
              [] OTHER -> <<c>>
    IN Join([i \in 1..Len(s) |-> esc(s[i])])

------------------------------------------------------------------------------
\* Results and effects

\* a normal return of value v after the effects ev
Ret(v, ev) == [v |-> v, err |-> "", ev |-> ev]

\* exception err propagating to the caller after the effects ev
Raise(err, ev) == [v |-> <<>>, err |-> err, ev |-> ev]

\* ExpandTemplate called at depth d / returning
EnterEv(d, template, specials, params, name) ==
    [e |-> "enter", d |-> d, template |-> template, specials |-> specials,
     params |-> params, name |-> name]

ExitEv(d, r) == [e |-> "exit", d |-> d, v |-> r.v, err |-> r.err]

\* _Log(message): the format string and its argument
LogEv(msg, arg) == [e |-> "log", msg |-> msg, arg |-> arg]

\* the resource handle f of _ExpandInclude
OpenEv(fname) == [e |-> "open", fname |-> fname]

ReadEv(fname) == [e |-> "read", fname |-> fname]

CloseEv(fname) == [e |-> "close", fname |-> fname]

------------------------------------------------------------------------------
\* Collaborators outside gtl.py

\* sanitize.SanitizeHtml(raw): an opaque string transform
SanitizeHtml(s) == <<"SanitizeHtml(">> \o s \o <<")">>

------------------------------------------------------------------------------
\* Path resolution

\* _GetValue(collection, index, default)
GetValue(collection, index, default) ==
    IF IsMapping(collection) /\ HasKey(collection, index)
    THEN Lookup(collection, index)
    ELSE IF IsSequence(collection) /\ IsDigit(index)
            /\ ToInt(index) < SeqLen(collection)
    THEN SeqAt(collection, ToInt(index))
    ELSE default

\* One pass of the body of the loop "for v in var.split('.')" of _ExpandValue
\* for the field v0: the index the field denotes, then the running value
\* indexed by it.
ExpandValueStep(v0, value, specials, params, default) ==
    LET \* value = _GetValue(value, str(v), default)
        Index(v) == Ret(GetValue(value, Str(v), default), <<>>)
        \* if isinstance(v, collections.Sequence): v = v[0]
        First(v) == IF IsSequence(v)
                    THEN IF SeqLen(v) = 0 THEN Raise("IndexError", <<>>)
                         ELSE Index(SeqAt(v, 0))
                    ELSE Index(v)
        \* if v.startswith('*'): v = _GetValue(specials['_params'], v[1:])
        Deref(v) == IF v.t # "str" THEN Raise("AttributeError", <<>>)
                    ELSE IF ~StartsWith(v.s, <<"*">>) THEN Index(v)
                    ELSE IF ~HasKey(specials, <<"_", "p", "a", "r", "a", "m", "s">>)
                    THEN Raise("KeyError", <<>>)
                    ELSE First(GetValue(Lookup(specials,
                                               <<"_", "p", "a", "r", "a", "m", "s">>),
                                        Tail(v.s), StrV(<<>>)))
    IN \* if v == '*_this': v = params
       Deref(IF v0 = <<"*", "_", "t", "h", "i", "s">> THEN params ELSE StrV(v0))

RECURSIVE ExpandValueLoop(_, _, _, _, _)
\* the loop "for v in var.split('.')" of _ExpandValue over the remaining
\* fields, and its return
ExpandValueLoop(fields, value, specials, params, default) ==
    LET Next(r) == IF r.err # "" THEN r
                   ELSE ExpandValueLoop(Tail(fields), r.v, specials, params, default)
    IN IF fields = <<>> THEN Ret(value, <<>>)
       ELSE Next(ExpandValueStep(Head(fields), value, specials, params, default))

\* _ExpandValue(var, specials, params, name, default)
ExpandValue(var, specials, params, name, default) ==
    IF var = <<"_", "k", "e", "y">> THEN Ret(StrV(name), <<>>)
    ELSE IF var = <<"_", "t", "h", "i", "s">> THEN Ret(params, <<>>)
    ELSE ExpandValueLoop(SplitAll(var, <<".">>),
                         IF StartsWith(var, <<"_">>) THEN specials ELSE params,
                         specials, params, default)

\* _ExpandVariable(var, specials, params, name, default=''), from the test
\* for a comment on
ExpandVariable(var, specials, params, name, default) ==
    LET \* the escapers, and "if value is None: value = ''"
        Escape(value, escaper_name) ==
            IF escaper_name = <<<<"t", "e", "x", "t">>>>
            THEN Ret(StrV(HtmlEscape(Str(value))), <<>>)
            ELSE IF escaper_name = <<<<"h", "t", "m", "l">>>>
            THEN Ret(StrV(SanitizeHtml(Str(value))), <<>>)
            ELSE IF escaper_name = <<<<"p", "p", "r", "i", "n", "t">>>>
            THEN Raise("NameError", <<>>)
            ELSE IF value.t = "none" THEN Ret(StrV(<<>>), <<>>)
            ELSE Ret(value, <<>>)
        \* "if inverted: value = not value", r the result of _ExpandValue
        Invert(r, inverted, escaper_name) ==
            IF r.err # "" THEN r
            ELSE Escape(IF inverted THEN BoolV(~Truthy(r.v)) ELSE r.v, escaper_name)
        \* "(var, escaper_name) = var.split(':', 1)": split is <<var>> or
        \* <<var, escaper_name>>, and escaper_name is <<>> for None
        Resolve(split, inverted) ==
            Invert(ExpandValue(split[1], specials, params, name, default),
                   inverted, Tail(split))
        \* "if inverted: var = var[1:]"
        Strip(inverted) ==
            Resolve(Split1(IF inverted THEN Tail(var) ELSE var, <<":">>), inverted)
    IN IF StartsWith(var, <<"#">>) THEN Ret(StrV(<<>>), <<>>)
       ELSE Strip(StartsWith(var, <<"!">>))

------------------------------------------------------------------------------
\* Tag scanning

BLOCK_OPEN == <<"[", "[">>
END_BLOCK_OPEN == <<"[", "[", "/">>
BLOCK_CLOSE == <<"]", "]">>
VAR_OPEN == <<"{", "{">>
VAR_CLOSE == <<"}", "}">>
FOR_TAG == <<"f", "o", "r">>
IF_TAG == <<"i", "f">>
INCLUDE_TAG == <<"i", "n", "c", "l", "u", "d", "e">>

\* _FindTag(template, open_marker, close_marker); found is FALSE for
\* (None, None, None)
FindTag(template, open_marker, close_marker) ==
    LET Tag(open_pos, close_pos) ==
            IF open_pos < 0 \/ close_pos < 0 \/ open_pos > close_pos
            THEN [found |-> FALSE, tag |-> <<>>, before |-> -1, after |-> -1]
            ELSE [found |-> TRUE,
                  tag |-> Slice(template, open_pos + Len(open_marker), close_pos),
                  before |-> open_pos,
                  after |-> close_pos + Len(close_marker)]
        Close(open_pos) == Tag(open_pos, Find(template, close_marker, open_pos))
    IN Close(Find(template, open_marker, 0))

RECURSIVE ExpandVariablesLoop(_, _, _, _, _)
\* the while loop of _ExpandVariables and its return
ExpandVariablesLoop(result, rest, specials, params, name) ==
    LET Next(r, ft) ==
            IF r.err # "" THEN r
            ELSE ExpandVariablesLoop(result \o <<Slice(rest, 0, ft.before), Str(r.v)>>,
                                     Slice(rest, ft.after, Len(rest)),
                                     specials, params, name)
        Tag(ft) ==
            IF ~ft.found THEN Ret(Join(result) \o rest, <<>>)
            ELSE Next(ExpandVariable(ft.tag, specials, params, name, StrV(<<>>)), ft)
    IN IF rest = <<>> THEN Ret(Join(result) \o rest, <<>>)
       ELSE Tag(FindTag(rest, VAR_OPEN, VAR_CLOSE))

\* _ExpandVariables(template, specials, params, name)
ExpandVariables(template, specials, params, name) ==
    ExpandVariablesLoop(<<>>, template, specials, params, name)

------------------------------------------------------------------------------
\* State

VARIABLES
    resources,  \* the files under gruyere.RESOURCE_PATH: path -> [kind, data]
    call,       \* the call in progress or last made: function and arguments
    ret,        \* its result: value, exception, effects in program order
    pc,         \* "idle", "running", "returned" or "raised"
    pos,        \* how many of the call's effects have happened
    stack,      \* the templates of the active ExpandTemplate calls, outermost first
    handles,    \* the open resource handles: [fname, d], d the depth that opened it
    reads,      \* how many include targets have been read successfully
    log         \* the messages passed to _Log

vars == <<resources, call, ret, pc, pos, stack, handles, reads, log>>

------------------------------------------------------------------------------
\* Block expansion

\* os.sep
OsSep == "/"

\* f = gruyere._Open(gruyere.RESOURCE_PATH, fname); result = f.read():
\* open fails with IOError for a missing resource; the read of an opened
\* resource returns its data or fails, with IOError or another exception
Open(fname) ==
    IF fname \notin DOMAIN resources
    THEN [opened |-> FALSE, err |-> "IOError", data |-> <<>>]
    ELSE LET f == resources[fname]
         IN IF f.kind = "file" THEN [opened |-> TRUE, err |-> "", data |-> f.data]
            ELSE [opened |-> TRUE, err |-> f.kind, data |-> <<>>]

\* IncludeRead without the finally clause: f is closed only after a read that
\* succeeded (a faulty variant, for testing the sensitivity of the properties)
IncludeReadNoFinally(filename, template) ==
    LET Read(fname, f) ==
            IF ~f.opened
            THEN Ret(template, <<LogEv("Error: missing filename: %s", filename)>>)
            ELSE IF f.err = ""
            THEN Ret(f.data, <<OpenEv(fname), ReadEv(fname), CloseEv(fname)>>)
            ELSE IF f.err = "IOError"
            THEN Ret(template, <<OpenEv(fname),
                                 LogEv("Error: missing filename: %s", filename)>>)
            ELSE Raise(f.err, <<OpenEv(fname)>>)
        Try(fname) == Read(fname, Open(fname))
    IN Try(<<OsSep>> \o Replace(filename, "/", OsSep))

\* IncludeRead without "result = template" in the except clause: a failed read
\* leaves result empty (a faulty variant)
IncludeReadNoFallback(filename, template) ==
    LET Read(fname, f) ==
            IF ~f.opened
            THEN Ret(<<>>, <<LogEv("Error: missing filename: %s", filename)>>)
            ELSE IF f.err = ""
            THEN Ret(f.data, <<OpenEv(fname), ReadEv(fname), CloseEv(fname)>>)
            ELSE IF f.err = "IOError"
            THEN Ret(<<>>, <<OpenEv(fname),
                             LogEv("Error: missing filename: %s", filename),
                             CloseEv(fname)>>)
            ELSE Raise(f.err, <<OpenEv(fname), CloseEv(fname)>>)
        Try(fname) == Read(fname, Open(fname))
    IN Try(<<OsSep>> \o Replace(filename, "/", OsSep))

\* the try/except/finally statement of _ExpandInclude: the content to expand
IncludeRead(filename, template) ==
    LET Read(fname, f) ==
            IF ~f.opened
            THEN Ret(template, <<LogEv("Error: missing filename: %s", filename)>>)
            ELSE IF f.err = ""
            THEN Ret(f.data, <<OpenEv(fname), ReadEv(fname), CloseEv(fname)>>)
            ELSE IF f.err = "IOError"
            THEN Ret(template, <<OpenEv(fname),
                                 LogEv("Error: missing filename: %s", filename),
                                 CloseEv(fname)>>)
            ELSE Raise(f.err, <<OpenEv(fname), CloseEv(fname)>>)
        Try(fname) == Read(fname, Open(fname))
    IN \* fname = os.sep + filename.replace('/', os.sep)
       Try(<<OsSep>> \o Replace(filename, "/", OsSep))

\* effects ev, then the call that had the result r
After(ev, r) == [v |-> r.v, err |-> r.err, ev |-> ev \o r.ev]

RECURSIVE ExpandTemplate(_, _, _, _, _)
RECURSIVE ExpandBlocks(_, _, _, _, _)
RECURSIVE ExpandBlocksLoop(_, _, _, _, _, _, _)
RECURSIVE ExpandBlock(_, _, _, _, _, _)
RECURSIVE ExpandInclude(_, _, _, _, _, _, _)
RECURSIVE ExpandFor(_, _, _, _, _)
RECURSIVE ExpandForLoop(_, _, _, _, _, _)

\* "t = _ExpandVariables(t, specials, params, name); return t" of
\* ExpandTemplate, t the result of _ExpandBlocks
VariablesPass(t, specials, params, name) ==
    IF t.err # "" THEN t
    ELSE After(t.ev, ExpandVariables(t.v, specials, params, name))

\* the call of ExpandTemplate at depth d whose body has the result r: the call
\* entered, the effects of its body, the call left
Frame(enter, r, d) ==
    [v |-> r.v, err |-> r.err, ev |-> <<enter>> \o r.ev \o <<ExitEv(d, r)>>]

\* ExpandTemplate(template, specials, params, name), called with d - 1
\* ExpandTemplate calls active; template is a str, so str(template) is template
ExpandTemplate(template, specials, params, name, d) ==
    IF d > MaxDepth THEN Raise("RecursionError", <<[e |-> "overflow", d |-> d]>>)
    ELSE Frame(EnterEv(d, template, specials, params, name),
               VariablesPass(ExpandBlocks(template, specials, params, name, d),
                             specials, params, name),
               d)

\* "result.append(rest[:before_tag]); result.append(_ExpandBlock(...));
\* rest = rest[after_end:]" of _ExpandBlocks and the next pass of its loop,
\* r the result of _ExpandBlock
BlocksNext(r, ft, after_end, result, rest, ev, specials, params, name, d) ==
    IF r.err # "" THEN Raise(r.err, ev \o r.ev)
    ELSE ExpandBlocksLoop(result \o <<Slice(rest, 0, ft.before), r.v>>,
                          Slice(rest, after_end, Len(rest)),
                          ev \o r.ev, specials, params, name, d)

\* BlocksBlock that, at an open tag without a close tag, copies the open tag
\* and scans on instead of leaving the loop (a faulty variant)
BlocksBlockSkipsOpenTag(ft, end_tag, before_end, result, rest, ev, specials, params, name, d) ==
    IF before_end < 0
    THEN ExpandBlocksLoop(result \o <<Slice(rest, 0, ft.after)>>,
                          Slice(rest, ft.after, Len(rest)),
                          ev, specials, params, name, d)
    ELSE BlocksNext(ExpandBlock(ft.tag, Slice(rest, ft.after, before_end),
                                specials, params, name, d),
                    ft, before_end + Len(end_tag),
                    result, rest, ev, specials, params, name, d)

\* BlocksBlock with "block = rest[before_tag:after_end]": the block keeps its
\* open and close tags (a faulty variant)
BlocksBlockKeepsTags(ft, end_tag, before_end, result, rest, ev, specials, params, name, d) ==
    IF before_end < 0 THEN Ret(Join(result) \o rest, ev)
    ELSE BlocksNext(ExpandBlock(ft.tag,
                                Slice(rest, ft.before, before_end + Len(end_tag)),
                                specials, params, name, d),
                    ft, before_end + Len(end_tag),
                    result, rest, ev, specials, params, name, d)

\* "if before_end < 0: break; after_end = before_end + len(end_tag);
\* block = rest[after_tag:before_end]" of _ExpandBlocks
BlocksBlock(ft, end_tag, before_end, result, rest, ev, specials, params, name, d) ==
    IF before_end < 0 THEN Ret(Join(result) \o rest, ev)
    ELSE BlocksNext(ExpandBlock(ft.tag, Slice(rest, ft.after, before_end),
                                specials, params, name, d),
                    ft, before_end + Len(end_tag),
                    result, rest, ev, specials, params, name, d)

\* "before_end = rest.find(end_tag, after_tag)" of _ExpandBlocks
BlocksEnd(ft, end_tag, result, rest, ev, specials, params, name, d) ==
    BlocksBlock(ft, end_tag, Find(rest, end_tag, ft.after),
                result, rest, ev, specials, params, name, d)

\* "if tag is None: break; end_tag = END_BLOCK_OPEN + tag + BLOCK_CLOSE" of
\* _ExpandBlocks, ft the result of _FindTag
BlocksTag(ft, result, rest, ev, specials, params, name, d) ==
    IF ~ft.found THEN Ret(Join(result) \o rest, ev)
    ELSE BlocksEnd(ft, END_BLOCK_OPEN \o ft.tag \o BLOCK_CLOSE,
                   result, rest, ev, specials, params, name, d)

\* the while loop of _ExpandBlocks and its return; ev are the effects so far
ExpandBlocksLoop(result, rest, ev, specials, params, name, d) ==
    IF rest = <<>> THEN Ret(Join(result) \o rest, ev)
    ELSE BlocksTag(FindTag(rest, BLOCK_OPEN, BLOCK_CLOSE),
                   result, rest, ev, specials, params, name, d)

\* _ExpandBlocks(template, specials, params, name)
ExpandBlocks(template, specials, params, name, d) ==
    ExpandBlocksLoop(<<>>, template, <<>>, specials, params, name, d)

\* the if branch of _ExpandBlock, block_data the result of _ExpandVariable
IfBlock(block_data, template, specials, params, name, d) ==
    IF block_data.err # "" THEN block_data
    ELSE IF Truthy(block_data.v)
    THEN ExpandTemplate(template, specials, params, name, d + 1)
    ELSE Ret(<<>>, <<>>)

\* the for branch of _ExpandBlock, block_data the result of _ExpandVariable
ForBlock(block_data, tag, template, specials, d) ==
    IF block_data.err # "" THEN block_data
    ELSE ExpandFor(tag, template, specials, block_data.v, d)

\* _ExpandBlock(tag, template, specials, params, name) after
\* "tag_type, block_var = tag.split(':', 1)", parts the result of the split
BlockDispatch(parts, tag, template, specials, params, name, d) ==
    IF Len(parts) # 2 THEN Raise("ValueError", <<>>)
    ELSE IF parts[1] = INCLUDE_TAG
    THEN ExpandInclude(tag, parts[2], template, specials, params, name, d)
    ELSE IF parts[1] = IF_TAG
    THEN IfBlock(ExpandVariable(parts[2], specials, params, name, StrV(<<>>)),
                 template, specials, params, name, d)
    ELSE IF parts[1] = FOR_TAG
    THEN ForBlock(ExpandVariable(parts[2], specials, params, name, StrV(<<>>)),
                  tag, template, specials, d)
    ELSE Ret(<<>>, <<LogEv("Error: Invalid block: %s", tag)>>)

\* _ExpandBlock(tag, template, specials, params, name)
ExpandBlock(tag, template, specials, params, name, d) ==
    BlockDispatch(Split1(tag, <<":">>), tag, template, specials, params, name, d)

\* "return ExpandTemplate(result, specials, params, name)" of _ExpandInclude,
\* io the outcome of its try statement
IncludeExpand(io, specials, params, name, d) ==
    IF io.err # "" THEN io
    ELSE After(io.ev, ExpandTemplate(io.v, specials, params, name, d + 1))

\* _ExpandInclude(_, filename, template, specials, params, name)
ExpandInclude(tag, filename, template, specials, params, name, d) ==
    IncludeExpand(IncludeRead(filename, template), specials, params, name, d)

\* "result.append(ExpandTemplate(...))" of _ExpandFor and the next pass of
\* its loop, r the result of ExpandTemplate
ForNext(r, result, ev, template, specials, items, d) ==
    IF r.err # "" THEN Raise(r.err, ev \o r.ev)
    ELSE ExpandForLoop(result \o <<r.v>>, ev \o r.ev, template, specials, items, d)

\* the for loops of _ExpandFor and its return; items are the <<params, name>>
\* of the iterations still to run, in order
ExpandForLoop(result, ev, template, specials, items, d) ==
    IF items = <<>> THEN Ret(Join(result), ev)
    ELSE ForNext(ExpandTemplate(template, specials, Head(items)[1], Head(items)[2],
                                d + 1),
                 result, ev, template, specials, Tail(items), d)

\* _ExpandFor that passes block_data, not block_data[v] or block_data[i], as
\* params (a faulty variant)
ExpandForWholeData(tag, template, specials, block_data, d) ==
    IF IsMapping(block_data)
    THEN ExpandForLoop(<<>>, <<>>, template, specials,
                       [i \in 1..Len(block_data.pairs) |->
                          <<block_data, block_data.pairs[i][1]>>], d)
    ELSE IF IsSequence(block_data)
    THEN ExpandForLoop(<<>>, <<>>, template, specials,
                       [i \in 1..SeqLen(block_data) |->
                          <<block_data, IntToStr(i - 1)>>], d)
    ELSE Ret(<<>>, <<LogEv("Error: Invalid type: %s", tag)>>)

\* _ExpandFor(tag, template, specials, block_data)
ExpandFor(tag, template, specials, block_data, d) ==
    IF IsMapping(block_data)
    THEN ExpandForLoop(<<>>, <<>>, template, specials,
                       [i \in 1..Len(block_data.pairs) |->
                          <<Lookup(block_data, block_data.pairs[i][1]),
                            block_data.pairs[i][1]>>], d)
    ELSE IF IsSequence(block_data)
    THEN ExpandForLoop(<<>>, <<>>, template, specials,
                       [i \in 1..SeqLen(block_data) |->
                          <<SeqAt(block_data, i - 1), IntToStr(i - 1)>>], d)
    ELSE Ret(<<>>, <<LogEv("Error: Invalid type: %s", tag)>>)

------------------------------------------------------------------------------
\* Inputs: the data contexts

\* a request with the repeated parameter u and the parameter k
SpecialsFull ==
    DictV(<<
        <<<<"_", "p", "a", "r", "a", "m", "s">>, DictV(<<
            <<<<"u">>, ListV(<<StrV(<<"x">>), StrV(<<"f">>)>>)>>,
            <<<<"k">>, StrV(<<"s">>)>>>>)>>,
        <<<<"_", "d", "b">>, DictV(<<
            <<<<"x">>, StrV(<<"p", "w">>)>>,
            <<<<"y">>, StrV(<<"p", "v">>)>>>>)>>,
        <<<<"_", "s">>, StrV(<<"S">>)>>>>)

\* a request whose parameter u has no value and that has no parameter k
SpecialsBare ==
    DictV(<<
        <<<<"_", "p", "a", "r", "a", "m", "s">>, DictV(<<
            <<<<"u">>, ListV(<<>>)>>>>)>>,
        <<<<"_", "d", "b">>, DictV(<<>>)>>>>)

\* a page model: booleans, strings (v and m.b hold the text of a variable tag), a mapping, a list, a number, None
ParamsDict ==
    DictV(<<
        <<<<"x">>, BoolV(TRUE)>>,
        <<<<"f">>, BoolV(FALSE)>>,
        <<<<"s">>, StrV(<<"T">>)>>,
        <<<<"v">>, StrV(<<"{", "{", "s", "}", "}">>)>>,
        <<<<"m">>, DictV(<<
            <<<<"a">>, StrV(<<"1">>)>>,
            <<<<"b">>, StrV(<<"{", "{", "_", "k", "e", "y", "}", "}">>)>>>>)>>,
        <<<<"l">>, ListV(<<StrV(<<"p">>), StrV(<<"q">>)>>)>>,
        <<<<"w">>, StrV(<<"a", "b">>)>>,
        <<<<"n">>, IntV(7)>>,
        <<<<"z">>, NoneV>>,
        <<<<"e">>, StrV(<<"<", "&", ">">>)>>>>)

\* a scalar scope, as inside a loop over strings
ParamsStr ==
    StrV(<<"x">>)

\* a list scope
ParamsList ==
    ListV(<<StrV(<<"p">>), ListV(<<StrV(<<"q">>)>>)>>)

Contexts ==
    [specials : {SpecialsFull, SpecialsBare}, params : {ParamsDict, ParamsStr, ParamsList}, name : {<<>>, <<"k">>}]

------------------------------------------------------------------------------
\* Inputs: the resource stores

\* H{{s}}
FileH ==
    <<"H", "{", "{", "s", "}", "}">>

\* [[include:r]]x[[/include:r]]
FileR ==
    <<"[", "[", "i", "n", "c", "l", "u", "d", "e", ":", "r", "]", "]", "x",
      "[", "[", "/", "i", "n", "c", "l", "u", "d", "e", ":", "r", "]", "]">>

\* [[if:x]]E[[for:l]]{{_this}}[[/for:l]][[/if:x]]
FileE ==
    <<"[", "[", "i", "f", ":", "x", "]", "]", "E", "[", "[", "f", "o", "r",
      ":", "l", "]", "]", "{", "{", "_", "t", "h", "i", "s", "}", "}", "[",
      "[", "/", "f", "o", "r", ":", "l", "]", "]", "[", "[", "/", "i", "f",
      ":", "x", "]", "]">>

\* no resource can be opened
StoreEmpty == <<>>

\* h, d/e and r (which includes itself) are readable; reading g fails with
\* IOError and reading c with another exception
StoreFull ==
    (<<"/", "h">> :> [kind |-> "file", data |-> FileH])
    @@ (<<"/", "d", "/", "e">> :> [kind |-> "file", data |-> FileE])
    @@ (<<"/", "r">> :> [kind |-> "file", data |-> FileR])
    @@ (<<"/", "g">> :> [kind |-> "IOError", data |-> <<>>])
    @@ (<<"/", "c">> :> [kind |-> "UnicodeDecodeError", data |-> <<>>])

Stores == {StoreEmpty, StoreFull}

------------------------------------------------------------------------------
\* Inputs: templates, tags and variable expressions

\* a b
T_Plain ==
    <<"a", " ", "b">>

\* {{s}}+{{q}}{{#c}}
T_Var ==
    <<"{", "{", "s", "}", "}", "+", "{", "{", "q", "}", "}", "{", "{", "#",
      "c", "}", "}">>

\* a[[if:x]]b[[/if:x]]c
T_If ==
    <<"a", "[", "[", "i", "f", ":", "x", "]", "]", "b", "[", "[", "/", "i",
      "f", ":", "x", "]", "]", "c">>

\* [[if:x]]{{v}}[[/if:x]]
T_IfData ==
    <<"[", "[", "i", "f", ":", "x", "]", "]", "{", "{", "v", "}", "}", "[",
      "[", "/", "i", "f", ":", "x", "]", "]">>

\* [[for:l]]{{_this}}-[[/for:l]]
T_ForList ==
    <<"[", "[", "f", "o", "r", ":", "l", "]", "]", "{", "{", "_", "t", "h",
      "i", "s", "}", "}", "-", "[", "[", "/", "f", "o", "r", ":", "l", "]",
      "]">>

\* [[for:m]]{{_key}}={{_this}}|[[/for:m]]
T_ForMap ==
    <<"[", "[", "f", "o", "r", ":", "m", "]", "]", "{", "{", "_", "k", "e",
      "y", "}", "}", "=", "{", "{", "_", "t", "h", "i", "s", "}", "}", "|",
      "[", "[", "/", "f", "o", "r", ":", "m", "]", "]">>

\* [[for:_db]]{{_key}}[[/for:_db]]
T_ForDb ==
    <<"[", "[", "f", "o", "r", ":", "_", "d", "b", "]", "]", "{", "{", "_",
      "k", "e", "y", "}", "}", "[", "[", "/", "f", "o", "r", ":", "_", "d",
      "b", "]", "]">>

\* [[if:x]]a[[/if:x]][[for:l]]{{_this}}[[/for:l]]
T_Two ==
    <<"[", "[", "i", "f", ":", "x", "]", "]", "a", "[", "[", "/", "i", "f",
      ":", "x", "]", "]", "[", "[", "f", "o", "r", ":", "l", "]", "]", "{",
      "{", "_", "t", "h", "i", "s", "}", "}", "[", "[", "/", "f", "o", "r",
      ":", "l", "]", "]">>

\* [[if:x]][[for:l]][[if:!f]]{{_this}}[[/if:!f]][[/for:l]][[/if:x]]
T_Nested ==
    <<"[", "[", "i", "f", ":", "x", "]", "]", "[", "[", "f", "o", "r", ":",
      "l", "]", "]", "[", "[", "i", "f", ":", "!", "f", "]", "]", "{", "{",
      "_", "t", "h", "i", "s", "}", "}", "[", "[", "/", "i", "f", ":", "!",
      "f", "]", "]", "[", "[", "/", "f", "o", "r", ":", "l", "]", "]", "[",
      "[", "/", "i", "f", ":", "x", "]", "]">>

\* [[include:h]]fb{{s}}[[/include:h]]
T_IncludeH ==
    <<"[", "[", "i", "n", "c", "l", "u", "d", "e", ":", "h", "]", "]", "f",
      "b", "{", "{", "s", "}", "}", "[", "[", "/", "i", "n", "c", "l", "u",
      "d", "e", ":", "h", "]", "]">>

\* [[include:d/e]][[if:x]]F[[/if:x]][[/include:d/e]]
T_IncludeE ==
    <<"[", "[", "i", "n", "c", "l", "u", "d", "e", ":", "d", "/", "e", "]",
      "]", "[", "[", "i", "f", ":", "x", "]", "]", "F", "[", "[", "/", "i",
      "f", ":", "x", "]", "]", "[", "[", "/", "i", "n", "c", "l", "u", "d",
      "e", ":", "d", "/", "e", "]", "]">>

\* [[include:r]][[/include:r]]
T_IncludeR ==
    <<"[", "[", "i", "n", "c", "l", "u", "d", "e", ":", "r", "]", "]", "[",
      "[", "/", "i", "n", "c", "l", "u", "d", "e", ":", "r", "]", "]">>

\* [[include:g]]G[[/include:g]]
T_IncludeG ==
    <<"[", "[", "i", "n", "c", "l", "u", "d", "e", ":", "g", "]", "]", "G",
      "[", "[", "/", "i", "n", "c", "l", "u", "d", "e", ":", "g", "]", "]">>

\* [[include:c]]C[[/include:c]]
T_IncludeC ==
    <<"[", "[", "i", "n", "c", "l", "u", "d", "e", ":", "c", "]", "]", "C",
      "[", "[", "/", "i", "n", "c", "l", "u", "d", "e", ":", "c", "]", "]">>

\* {{_db.*u}}
T_Star ==
    <<"{", "{", "_", "d", "b", ".", "*", "u", "}", "}">>

\* {{x:pprint}}
T_Pprint ==
    <<"{", "{", "x", ":", "p", "p", "r", "i", "n", "t", "}", "}">>

\* {{e:text}}{{!x}}
T_Text ==
    <<"{", "{", "e", ":", "t", "e", "x", "t", "}", "}", "{", "{", "!", "x",
      "}", "}">>

\* [[bad:x]]q[[/bad:x]]r
T_Unknown ==
    <<"[", "[", "b", "a", "d", ":", "x", "]", "]", "q", "[", "[", "/", "b",
      "a", "d", ":", "x", "]", "]", "r">>

\* a[[if:x]]b
T_Open ==
    <<"a", "[", "[", "i", "f", ":", "x", "]", "]", "b">>

\* [[x]]b[[/x]]
T_NoColon ==
    <<"[", "[", "x", "]", "]", "b", "[", "[", "/", "x", "]", "]">>

\* the templates passed to ExpandTemplate
Templates ==
    {T_Plain, T_Var, T_If, T_IfData, T_ForList, T_ForMap, T_ForDb, T_Two,
     T_Nested, T_IncludeH, T_IncludeE, T_IncludeR, T_IncludeG, T_IncludeC,
     T_Star, T_Pprint, T_Text, T_Unknown, T_Open, T_NoColon}

\* 
Pre_Empty ==
    <<>>

\* a
Pre_Lit ==
    <<"a">>

\* [[if:x]]b[[/if:x]]c
Pre_If ==
    <<"[", "[", "i", "f", ":", "x", "]", "]", "b", "[", "[", "/", "i", "f",
      ":", "x", "]", "]", "c">>

\* [[if:x]]b[[/if:x]][[for:l]]{{_this}}[[/for:l]]
Pre_Two ==
    <<"[", "[", "i", "f", ":", "x", "]", "]", "b", "[", "[", "/", "i", "f",
      ":", "x", "]", "]", "[", "[", "f", "o", "r", ":", "l", "]", "]", "{",
      "{", "_", "t", "h", "i", "s", "}", "}", "[", "[", "/", "f", "o", "r",
      ":", "l", "]", "]">>

\* [[bad:x]]q[[/bad:x]]
Pre_Unknown ==
    <<"[", "[", "b", "a", "d", ":", "x", "]", "]", "q", "[", "[", "/", "b",
      "a", "d", ":", "x", "]", "]">>

\* [[if:*k]]b[[/if:*k]]
Pre_Raises ==
    <<"[", "[", "i", "f", ":", "*", "k", "]", "]", "b", "[", "[", "/", "i",
      "f", ":", "*", "k", "]", "]">>

\* 
Tail_None ==
    <<>>

\* z
Tail_Lit ==
    <<"z">>

\* [[if:x]]b
Tail_Open ==
    <<"[", "[", "i", "f", ":", "x", "]", "]", "b">>

\* [[if:x]]b[[for:l]]c[[/for:l]]d
Tail_OpenThenBlock ==
    <<"[", "[", "i", "f", ":", "x", "]", "]", "b", "[", "[", "f", "o", "r",
      ":", "l", "]", "]", "c", "[", "[", "/", "f", "o", "r", ":", "l", "]",
      "]", "d">>

\* [[if:x]]b[[/if:f]][[if:f]]c[[/if:f]]
Tail_WrongClose ==
    <<"[", "[", "i", "f", ":", "x", "]", "]", "b", "[", "[", "/", "i", "f",
      ":", "f", "]", "]", "[", "[", "i", "f", ":", "f", "]", "]", "c", "[",
      "[", "/", "i", "f", ":", "f", "]", "]">>

\* [[/if:x]][[if:x]]b[[/if:x]]
Tail_StrayClose ==
    <<"[", "[", "/", "i", "f", ":", "x", "]", "]", "[", "[", "i", "f", ":",
      "x", "]", "]", "b", "[", "[", "/", "i", "f", ":", "x", "]", "]">>

\* [[include:h]]b[[bad:x]]q[[/bad:x]]
Tail_IncludeOpen ==
    <<"[", "[", "i", "n", "c", "l", "u", "d", "e", ":", "h", "]", "]", "b",
      "[", "[", "b", "a", "d", ":", "x", "]", "]", "q", "[", "[", "/", "b",
      "a", "d", ":", "x", "]", "]">>

\* templates in which every block is closed
Prefixes ==
    {Pre_Empty, Pre_Lit, Pre_If, Pre_Two, Pre_Unknown, Pre_Raises}

\* what follows: nothing, literal text, or text that starts with a block open tag
\* that has no matching close tag
Tails ==
    {Tail_None, Tail_Lit, Tail_Open, Tail_OpenThenBlock, Tail_WrongClose,
     Tail_StrayClose, Tail_IncludeOpen}

\* the tags passed to _ExpandBlock: if:x if:!x if:f if:!f if:q if:!q if:m.a if:!m.a ...
BlockTags ==
    {<<"i", "f", ":", "x">>,
     <<"i", "f", ":", "!", "x">>,
     <<"i", "f", ":", "f">>,
     <<"i", "f", ":", "!", "f">>,
     <<"i", "f", ":", "q">>,
     <<"i", "f", ":", "!", "q">>,
     <<"i", "f", ":", "m", ".", "a">>,
     <<"i", "f", ":", "!", "m", ".", "a">>,
     <<"i", "f", ":", "l", ".", "7">>,
     <<"i", "f", ":", "!", "l", ".", "7">>,
     <<"i", "f", ":", "_", "d", "b", ".", "*", "u">>,
     <<"i", "f", ":", "!", "_", "d", "b", ".", "*", "u">>,
     <<"i", "f", ":", "*", "k">>,
     <<"i", "f", ":", "!", "*", "k">>,
     <<"i", "f", ":", "n">>,
     <<"i", "f", ":", "!", "n">>,
     <<"f", "o", "r", ":", "m">>,
     <<"f", "o", "r", ":", "l">>,
     <<"f", "o", "r", ":", "_", "d", "b">>,
     <<"f", "o", "r", ":", "w">>,
     <<"f", "o", "r", ":", "n">>,
     <<"f", "o", "r", ":", "x">>,
     <<"f", "o", "r", ":", "z">>,
     <<"f", "o", "r", ":", "q">>,
     <<"f", "o", "r", ":", "_", "t", "h", "i", "s">>,
     <<"i", "n", "c", "l", "u", "d", "e", ":", "h">>,
     <<"i", "n", "c", "l", "u", "d", "e", ":", "d", "/", "e">>,
     <<"i", "n", "c", "l", "u", "d", "e", ":", "g">>,
     <<"i", "n", "c", "l", "u", "d", "e", ":", "c">>,
     <<"i", "n", "c", "l", "u", "d", "e", ":", "r">>,
     <<"b", "a", "d", ":", "x">>,
     <<"x">>}

\* b
B_Lit ==
    <<"b">>

\* {{_key}}={{_this}}|{{_s}}
B_KeyThis ==
    <<"{", "{", "_", "k", "e", "y", "}", "}", "=", "{", "{", "_", "t", "h",
      "i", "s", "}", "}", "|", "{", "{", "_", "s", "}", "}">>

\* [[if:x]]{{v}}[[/if:x]]
B_IfData ==
    <<"[", "[", "i", "f", ":", "x", "]", "]", "{", "{", "v", "}", "}", "[",
      "[", "/", "i", "f", ":", "x", "]", "]">>

\* {{_this:pprint}}
B_Pprint ==
    <<"{", "{", "_", "t", "h", "i", "s", ":", "p", "p", "r", "i", "n", "t",
      "}", "}">>

\* block bodies
Bodies ==
    {B_Lit, B_KeyThis, B_IfData, B_Pprint}

\* the paths passed to _ExpandValue: x q m.a m.q m.a.b l.1 l.7 l.a s.0 n.0 z 0 1.0 _key _this _db.x _db.*u _db.*k *u *k *s m.*_this *_this _q and the empty path
Paths ==
    {<<"x">>,
     <<"q">>,
     <<"m", ".", "a">>,
     <<"m", ".", "q">>,
     <<"m", ".", "a", ".", "b">>,
     <<"l", ".", "1">>,
     <<"l", ".", "7">>,
     <<"l", ".", "a">>,
     <<"s", ".", "0">>,
     <<"n", ".", "0">>,
     <<"z">>,
     <<"0">>,
     <<"1", ".", "0">>,
     <<"_", "k", "e", "y">>,
     <<"_", "t", "h", "i", "s">>,
     <<"_", "d", "b", ".", "x">>,
     <<"_", "d", "b", ".", "*", "u">>,
     <<"_", "d", "b", ".", "*", "k">>,
     <<"*", "u">>,
     <<"*", "k">>,
     <<"*", "s">>,
     <<"m", ".", "*", "_", "t", "h", "i", "s">>,
     <<"*", "_", "t", "h", "i", "s">>,
     <<"_", "q">>,
     <<>>}

\* the escaper suffixes of a variable expression: none, the defined three,
\* an undefined one
Escapers ==
    {<<>>, <<":", "t", "e", "x", "t">>, <<":", "h", "t", "m", "l">>, <<":", "p", "p", "r", "i", "n", "t">>, <<":", "r", "a", "w">>}

\* the expressions passed to _ExpandVariable: [!]path[:escaper] and a comment
VarExprs ==
    {neg \o path \o esc : neg \in {<<>>, <<"!">>}, path \in Paths, esc \in Escapers}
    \cup {<<"#", "x">>}

------------------------------------------------------------------------------
\* The expander at work: a caller makes one call, and the call's effects
\* happen one at a time in program order until it returns or raises.

Init ==
    /\ resources \in Stores
    /\ call = [fn |-> "", template |-> <<>>, tag |-> <<>>, pre |-> <<>>,
               specials |-> NoneV, params |-> NoneV, name |-> <<>>]
    /\ ret = Ret(<<>>, <<>>)
    /\ pc = "idle"
    /\ pos = 0
    /\ stack = <<>>
    /\ handles = <<>>
    /\ reads = 0
    /\ log = <<>>

\* ExpandTemplate(template, specials, params, name)
CallExpandTemplate ==
    /\ pc = "idle"
    /\ \E template \in Templates, c \in Contexts :
        /\ call' = [fn |-> "ExpandTemplate", template |-> template, tag |-> <<>>,
                    pre |-> <<>>, specials |-> c.specials, params |-> c.params,
                    name |-> c.name]
        /\ ret' = ExpandTemplate(template, c.specials, c.params, c.name, 1)
    /\ pc' = "running"
    /\ UNCHANGED <<resources, pos, stack, handles, reads, log>>

\* _ExpandBlocks(pre + tail, specials, params, name)
CallExpandBlocks ==
    /\ pc = "idle"
    /\ \E pre \in Prefixes, tail \in Tails, c \in Contexts :
        /\ call' = [fn |-> "ExpandBlocks", template |-> pre \o tail, tag |-> <<>>,
                    pre |-> pre, specials |-> c.specials, params |-> c.params,
                    name |-> c.name]
        /\ ret' = ExpandBlocks(pre \o tail, c.specials, c.params, c.name, 0)
    /\ pc' = "running"
    /\ UNCHANGED <<resources, pos, stack, handles, reads, log>>

\* _ExpandBlock(tag, template, specials, params, name)
CallExpandBlock ==
    /\ pc = "idle"
    /\ \E tag \in BlockTags, template \in Bodies, c \in Contexts :
        /\ call' = [fn |-> "ExpandBlock", template |-> template, tag |-> tag,
                    pre |-> <<>>, specials |-> c.specials, params |-> c.params,
                    name |-> c.name]
        /\ ret' = ExpandBlock(tag, template, c.specials, c.params, c.name, 0)
    /\ pc' = "running"
    /\ UNCHANGED <<resources, pos, stack, handles, reads, log>>

\* _ExpandVariable(var, specials, params, name)
CallExpandVariable ==
    /\ pc = "idle"
    /\ \E var \in VarExprs, c \in Contexts :
        /\ call' = [fn |-> "ExpandVariable", template |-> <<>>, tag |-> var,
                    pre |-> <<>>, specials |-> c.specials, params |-> c.params,
                    name |-> c.name]
        /\ ret' = ExpandVariable(var, c.specials, c.params, c.name, StrV(<<>>))
    /\ pc' = "running"
    /\ UNCHANGED <<resources, pos, stack, handles, reads, log>>

\* _ExpandValue(var, specials, params, name, '')
CallExpandValue ==
    /\ pc = "idle"
    /\ \E var \in Paths, c \in Contexts :
        /\ call' = [fn |-> "ExpandValue", template |-> <<>>, tag |-> var,
                    pre |-> <<>>, specials |-> c.specials, params |-> c.params,
                    name |-> c.name]
        /\ ret' = ExpandValue(var, c.specials, c.params, c.name, StrV(<<>>))
    /\ pc' = "running"
    /\ UNCHANGED <<resources, pos, stack, handles, reads, log>>

\* the next effect of the running call
Effect == ret.ev[pos + 1]

Step(kind) ==
    /\ pc = "running"
    /\ pos < Len(ret.ev)
    /\ Effect.e = kind
    /\ pos' = pos + 1
    /\ UNCHANGED <<resources, call, ret, pc>>

\* ExpandTemplate is entered
Enter ==
    /\ Step("enter")
    /\ stack' = Append(stack, Effect.template)
    /\ UNCHANGED <<handles, reads, log>>

\* ExpandTemplate returns, or an exception leaves it
Exit ==
    /\ Step("exit")
    /\ stack' = SubSeq(stack, 1, Len(stack) - 1)
    /\ UNCHANGED <<handles, reads, log>>

\* the call that would exceed the interpreter stack raises RecursionError
Overflow ==
    /\ Step("overflow")
    /\ UNCHANGED <<stack, handles, reads, log>>

\* f = gruyere._Open(gruyere.RESOURCE_PATH, fname)
OpenFile ==
    /\ Step("open")
    /\ handles' = Append(handles, [fname |-> Effect.fname, d |-> Len(stack)])
    /\ UNCHANGED <<stack, reads, log>>

\* result = f.read()
ReadFile ==
    /\ Step("read")
    /\ reads' = reads + 1
    /\ UNCHANGED <<stack, handles, log>>

\* f.close()
CloseFile ==
    /\ Step("close")
    /\ handles' = SubSeq(handles, 1, Len(handles) - 1)
    /\ UNCHANGED <<stack, reads, log>>

\* _Log(message)
Log ==
    /\ Step("log")
    /\ log' = Append(log, [msg |-> Effect.msg, arg |-> Effect.arg])
    /\ UNCHANGED <<stack, handles, reads>>

\* the call returns its value, or its exception reaches the caller
Finish ==
    /\ pc = "running"
    /\ pos = Len(ret.ev)
    /\ pc' = IF ret.err = "" THEN "returned" ELSE "raised"
    /\ UNCHANGED <<resources, call, ret, pos, stack, handles, reads, log>>

Next ==
    \/ CallExpandTemplate
    \/ CallExpandBlocks
    \/ CallExpandBlock
    \/ CallExpandVariable
    \/ CallExpandValue
    \/ Enter
    \/ Exit
    \/ Overflow
    \/ OpenFile
    \/ ReadFile
    \/ CloseFile
    \/ Log
    \/ Finish

Spec == Init /\ [][Next]_vars

Done == pc \in {"returned", "raised"}


------------------------------------------------------------------------------
\* Vocabulary of the properties

\* sub occurs in s
IsSubstring(sub, s) == Find(s, sub, 0) >= 0

\* the calls of ExpandTemplate at depth d, in order, and their returns
Enters(d) == SelectSeq(ret.ev, LAMBDA e : e.e = "enter" /\ e.d = d)

Exits(d) == SelectSeq(ret.ev, LAMBDA e : e.e = "exit" /\ e.d = d)

\* the tag of the _ExpandBlock call is type:argument
IsBlockCall(type) ==
    /\ call.fn = "ExpandBlock"
    /\ Len(Split1(call.tag, <<":">>)) = 2
    /\ Split1(call.tag, <<":">>)[1] = type

\* the argument of the block tag, and what it resolves to
BlockVar == Split1(call.tag, <<":">>)[2]

BlockData ==
    ExpandVariable(BlockVar, call.specials, call.params, call.name, StrV(<<>>))

\* the variable expression of the _ExpandVariable call is [!]path[:escaper]
VarBody == IF StartsWith(call.tag, <<"!">>) THEN Tail(call.tag) ELSE call.tag

VarPath == Split1(VarBody, <<":">>)[1]

VarEscaper == Tail(Split1(VarBody, <<":">>))

\* the value the escaper is applied to
VarValue ==
    LET r == ExpandValue(VarPath, call.specials, call.params, call.name, StrV(<<>>))
    IN IF r.err # "" THEN r
       ELSE IF StartsWith(call.tag, <<"!">>) THEN Ret(BoolV(~Truthy(r.v)), <<>>)
       ELSE r

\* where in the template the block scan stops at an open tag that has no
\* matching close tag after it, rest being the template from offset off on;
\* -1 if every open tag is matched
RECURSIVE FirstUnmatched(_, _)
FirstUnmatched(rest, off) ==
    LET ft == FindTag(rest, BLOCK_OPEN, BLOCK_CLOSE)
        end_tag == END_BLOCK_OPEN \o ft.tag \o BLOCK_CLOSE
        before_end == Find(rest, end_tag, ft.after)
    IN IF rest = <<>> \/ ~ft.found THEN -1
       ELSE IF before_end < 0 THEN off + ft.before
       ELSE FirstUnmatched(Slice(rest, before_end + Len(end_tag), Len(rest)),
                           off + before_end + Len(end_tag))

\* the block nesting depth of a template: 0 without a matched block, else one
\* more than the deepest body of its matched blocks
RECURSIVE NestingDepth(_)
NestingDepth(t) ==
    LET ft == FindTag(t, BLOCK_OPEN, BLOCK_CLOSE)
        end_tag == END_BLOCK_OPEN \o ft.tag \o BLOCK_CLOSE
        before_end == Find(t, end_tag, ft.after)
        inner == 1 + NestingDepth(Slice(t, ft.after, before_end))
        later == NestingDepth(Slice(t, before_end + Len(end_tag), Len(t)))
    IN IF t = <<>> \/ ~ft.found THEN 0
       ELSE IF before_end < 0 THEN 0
       ELSE IF inner > later THEN inner ELSE later

\* the <<params, name>> of the iterations the specification gives a for block
\* over a mapping or a list
Iterations(data) ==
    IF data.t = "dict"
    THEN [i \in 1..Len(data.pairs) |->
            [params |-> data.pairs[i][2], name |-> data.pairs[i][1]]]
    ELSE [i \in 1..Len(data.items) |->
            [params |-> data.items[i], name |-> IntToStr(i - 1)]]

\* the expansion of the body of the _ExpandBlock call for iteration it
BodyRun(it) == ExpandTemplate(call.template, call.specials, it.params, it.name, 1)

\* the resource an include block names
IncludePath == <<OsSep>> \o Replace(BlockVar, "/", OsSep)

\* the resource is there and its read succeeds
Readable ==
    IncludePath \in DOMAIN resources /\ resources[IncludePath].kind = "file"

\* the resource is missing, or its read fails with IOError
Unreadable ==
    IncludePath \notin DOMAIN resources \/ resources[IncludePath].kind = "IOError"

------------------------------------------------------------------------------
\* Properties

\* C1: variables in the content spliced in by a block are resolved exactly
\* once.  When ExpandTemplate returns, the expansion each block body returned
\* to it (which its variable pass, were it not to scan spliced content again,
\* would leave as it is) occurs verbatim in the output.
C1_SplicedContentIsNotScannedAgain ==
    (call.fn = "ExpandTemplate" /\ pc = "returned")
        => \A i \in 1..Len(Exits(2)) : IsSubstring(Exits(2)[i].v, ret.v)

\* C2: path resolution never raises.  No call of _ExpandValue, for any path
\* and any context, ends in an exception.
C2_PathResolutionNeverRaises ==
    (call.fn = "ExpandValue" /\ Done) => (pc = "returned" /\ ret.err = "")

\* C3: a for block whose argument resolves to None, a boolean, a number or a
\* string logs a diagnostic and contributes the empty string, and its body is
\* expanded zero times.
C3_ForOverScalarLogsAndContributesNothing ==
    (IsBlockCall(FOR_TAG) /\ Done /\ BlockData.err = ""
     /\ BlockData.v.t \in {"none", "bool", "int", "str"})
        => /\ pc = "returned"
           /\ ret.v = <<>>
           /\ Enters(1) = <<>>
           /\ log # <<>>

\* C4: the escaper step never raises.  Whenever the path of a variable
\* expression resolves, _ExpandVariable returns, and with the escaper text,
\* html or pprint it returns a string of the stated form.
C4_EscaperStepReturns ==
    (call.fn = "ExpandVariable" /\ Done /\ ~StartsWith(call.tag, <<"#">>)
     /\ VarValue.err = "")
        => /\ pc = "returned"
           /\ VarEscaper = <<<<"t", "e", "x", "t">>>>
                => ret.v = StrV(HtmlEscape(Str(VarValue.v)))
           /\ VarEscaper = <<<<"h", "t", "m", "l">>>>
                => ret.v = StrV(SanitizeHtml(Str(VarValue.v)))
           /\ VarEscaper = <<<<"p", "p", "r", "i", "n", "t">>>>
                => /\ ret.v.t = "str"
                   /\ StartsWith(ret.v.s, <<"<", "p", "r", "e", ">">>)

\* C5: at the first block open tag that has no matching close tag,
\* _ExpandBlocks stops without an error of its own.  Its effects and its
\* exception, if any, are those of expanding the blocks of the text before that
\* tag, and what it returns is that text expanded followed by the template from
\* the unmatched open tag on, unchanged.
C5_UnterminatedBlockStopsTheScan ==
    (call.fn = "ExpandBlocks" /\ FirstUnmatched(call.template, 0) >= 0)
        => LET k == FirstUnmatched(call.template, 0)
               before == ExpandBlocks(Slice(call.template, 0, k), call.specials,
                                      call.params, call.name, 0)
           IN /\ ret.err = before.err
              /\ ret.ev = before.ev
              /\ ret.err = ""
                   => ret.v = before.v \o Slice(call.template, k, Len(call.template))

\* C5 happens: blocks were expanded before an unmatched open tag that a
\* well-formed block follows, and _ExpandBlocks has returned
C5_Witness ==
    /\ call.fn = "ExpandBlocks"
    /\ pc = "returned"
    /\ call.pre = Pre_Two
    /\ call.template = Pre_Two \o Tail_OpenThenBlock
    /\ FirstUnmatched(call.template, 0) = Len(Pre_Two)
    /\ Len(Exits(1)) > 1
    /\ IsSubstring(Tail_OpenThenBlock, ret.v)

\* C6: with B the block body and x a path, exactly one of the blocks if:x and
\* if:!x contributes the expansion of B in the context and name of the call,
\* and the other contributes the empty string without expanding anything; the
\* block if:x is the one that contributes B exactly when x resolves to a truthy
\* value.
C6_IfAndNegatedIfAreComplementary ==
    (IsBlockCall(IF_TAG) /\ Done /\ ~StartsWith(BlockVar, <<"!">>))
        => LET negated == ExpandBlock(IF_TAG \o <<":", "!">> \o BlockVar,
                                      call.template, call.specials, call.params,
                                      call.name, 0)
               body == ExpandTemplate(call.template, call.specials, call.params,
                                      call.name, 1)
               nothing == Ret(<<>>, <<>>)
           IN \/ ret = body /\ negated = nothing /\ Truthy(BlockData.v)
              \/ ret = nothing /\ negated = body /\ ~Truthy(BlockData.v)

\* C7: a for block over a mapping or a list expands its body once per key,
\* or index, in order, with params the element and name the key, or the index
\* in decimal, and with the specials of the call; it contributes the
\* concatenation of these expansions.  (An iteration that raises ends the
\* block with its exception.)
C7_ForIteratesInOrder ==
    (IsBlockCall(FOR_TAG) /\ BlockData.err = ""
     /\ BlockData.v.t \in {"dict", "list"})
        => LET its == Iterations(BlockData.v)
               runs == [i \in 1..Len(its) |-> BodyRun(its[i])]
               failed == {i \in 1..Len(its) : runs[i].err # ""}
               n == IF failed = {} THEN Len(its) ELSE Min(failed)
           IN /\ ret.ev = Join([i \in 1..n |-> runs[i].ev])
              /\ failed = {} => /\ ret.err = ""
                                /\ ret.v = Join([i \in 1..n |-> runs[i].v])
              /\ failed # {} => ret.err = runs[n].err

\* C7 happens: a for block over a mapping of two keys has returned the two
\* expansions of its body
C7_Witness ==
    /\ IsBlockCall(FOR_TAG)
    /\ pc = "returned"
    /\ BlockData.v.t = "dict"
    /\ Len(BlockData.v.pairs) = 2
    /\ Len(Exits(1)) = 2
    /\ Enters(1)[1].name # Enters(1)[2].name
    /\ Exits(1)[1].v # Exits(1)[2].v
    /\ ret.v = Exits(1)[1].v \o Exits(1)[2].v

C9_DepthIsNestingDepth ==
    /\ \A i \in 1..(Len(stack) - 1) :
         /\ Len(stack[i + 1]) < Len(stack[i])
         /\ IsSubstring(stack[i + 1], stack[i])
    /\ Len(stack) <= NestingDepth(call.template)
                       + (IF call.fn = "ExpandBlocks" THEN 0 ELSE 1)
    /\ \A i \in 1..pos : ret.ev[i].e # "overflow"

\* C9, amended: as long as no include target has been read, every active
\* call of ExpandTemplate but the outermost operates on a proper part of its
\* caller's template, and the depth is the block nesting depth at most: the
\* calls active under ExpandTemplate(t) or _ExpandBlock(tag, t) number at most
\* one more than the nesting depth of t, and those under _ExpandBlocks(t) at
\* most the nesting depth of t; no call has exhausted the stack.
C9_DepthIsNestingDepthWithoutReads ==
    reads = 0
        => /\ \A i \in 1..(Len(stack) - 1) :
                /\ Len(stack[i + 1]) < Len(stack[i])
                /\ IsSubstring(stack[i + 1], stack[i])
           /\ Len(stack) <= NestingDepth(call.template)
                              + (IF call.fn = "ExpandBlocks" THEN 0 ELSE 1)
           /\ \A i \in 1..pos : ret.ev[i].e # "overflow"

\* the amended C9 happens: with no target read, the calls are as deep as the
\* template's three nested blocks
C9_Witness ==
    /\ reads = 0
    /\ call.fn = "ExpandTemplate"
    /\ NestingDepth(call.template) = 3
    /\ Len(stack) = 4

\* C10: at most one resource handle is open at any point, an open handle
\* belongs to the innermost active call (no expansion has begun since it was
\* opened), and none is open once the call has returned or raised.
C10_HandleIsClosedBeforeExpansion ==
    /\ Len(handles) <= 1
    /\ \A i \in 1..Len(handles) : handles[i].d = Len(stack)
    /\ Done => handles = <<>>

\* C10 happens: the read of an opened target raised an exception that is not
\* an IOError, the exception has reached the caller, and no handle is open
C10_Witness ==
    /\ pc = "raised"
    /\ ret.err = "UnicodeDecodeError"
    /\ \E i \in 1..Len(ret.ev) : ret.ev[i].e = "open"
    /\ pos = Len(ret.ev)
    /\ handles = <<>>

====
